---------------------------- MODULE Spec2Model ----------------------------
(***************************************************************************)
(* The ticketing multi-agent system of src/multi_agent_system.py: the      *)
(* ticket store (TicketManager), the agents' bounded memory logs (Agent),  *)
(* the ticket handler (TicketAgent), the issue detector                    *)
(* (IssueDetectionAgent) and the dispatcher (CoordinatorAgent).            *)
(*                                                                         *)
(* Strings the program inspects character by character (prompts, issue     *)
(* texts, keywords) are sequences of one-character strings.  Strings the   *)
(* program only builds and passes on (messages, responses) are sequences   *)
(* of pieces, so that an f-string is the concatenation of its parts.       *)
(***************************************************************************)
EXTENDS Integers, Sequences, FiniteSets, TLC

VARIABLES
    text,       \* SpecText: the text handed to the issue detector
    out,        \* SpecText: what the detector's last call returned
    memory,     \* Agent.memory of every agent: name -> sequence of records
    appended,   \* SpecMem, history: every record ever passed to add_to_memory
    now,        \* the clock datetime.now() reads, in ticks
    tickets,    \* TicketAgent.tickets, the in-memory cache: id -> Ticket
    store,      \* the storage directory: id -> content of <id>.json
    op,         \* the operation that ran last
    req,        \* its input
    env,        \* what the disk and the inference service did during it
    ret,        \* what it returned, or that it raised
    nOps,       \* number of state-changing operations run so far
    created     \* history: id -> the record the latest create built for it

vars ==
    <<text, out, memory, appended, now, tickets, store, op, req, env, ret,
      nOps, created>>

---------------------------------------------------------------------------
(* Text primitives: str.lower(), the `in` substring test, slicing.         *)

\* str.lower() on one character
LowerChar(c) ==
    CASE c = "A" -> "a" [] c = "B" -> "b" [] c = "C" -> "c" [] c = "D" -> "d"
      [] c = "E" -> "e" [] c = "F" -> "f" [] c = "G" -> "g" [] c = "H" -> "h"
      [] c = "I" -> "i" [] c = "J" -> "j" [] c = "K" -> "k" [] c = "L" -> "l"
      [] c = "M" -> "m" [] c = "N" -> "n" [] c = "O" -> "o" [] c = "P" -> "p"
      [] c = "Q" -> "q" [] c = "R" -> "r" [] c = "S" -> "s" [] c = "T" -> "t"
      [] c = "U" -> "u" [] c = "V" -> "v" [] c = "W" -> "w" [] c = "X" -> "x"
      [] c = "Y" -> "y" [] c = "Z" -> "z" [] OTHER -> c

\* text.lower()
Lower(s) == [i \in 1..Len(s) |-> LowerChar(s[i])]

\* Python's `sub in s`
Contains(s, sub) ==
    \E i \in 0..(Len(s) - Len(sub)) : SubSeq(s, i + 1, i + Len(sub)) = sub

\* Python's s[:n] for n >= 0
Prefix(s, n) == SubSeq(s, 1, IF Len(s) < n THEN Len(s) ELSE n)

\* what the regular-expression class \s accepts
IsSpace(c) == c \in {" ", "\t", "\n", "\r"}

---------------------------------------------------------------------------
(* IssueDetectionAgent: configuration data.                                *)

issue_keywords ==
    << <<"e","r","r","o","r">>,
       <<"b","u","g">>,
       <<"c","r","a","s","h">>,
       <<"f","a","i","l">>,
       <<"b","r","o","k","e","n">>,
       <<"n","o","t"," ","w","o","r","k","i","n","g">>,
       <<"h","e","l","p">>,
       <<"p","r","o","b","l","e","m">>,
       <<"i","s","s","u","e">>,
       <<"f","a","t","a","l">>,
       <<"e","x","c","e","p","t","i","o","n">>,
       <<"d","o","w","n">>,
       <<"d","o","e","s","n","'","t"," ","w","o","r","k">>,
       <<"m","a","l","f","u","n","c","t","i","o","n">>,
       <<"g","l","i","t","c","h">>,
       <<"f","a","u","l","t">>,
       <<"d","e","f","e","c","t">>,
       <<"u","r","g","e","n","t">>,
       <<"e","m","e","r","g","e","n","c","y">>,
       <<"c","r","i","t","i","c","a","l">>,
       <<"f","i","x">>,
       <<"r","e","p","a","i","r">>,
       <<"u","n","r","e","s","p","o","n","s","i","v","e">>,
       <<"f","r","e","e","z","e">>,
       <<"h","a","n","g">>,
       <<"t","i","m","e","o","u","t">> >>

\* severity_indicators["high"]
severity_high ==
    << <<"u","r","g","e","n","t">>,
       <<"c","r","i","t","i","c","a","l">>,
       <<"e","m","e","r","g","e","n","c","y">>,
       <<"f","a","t","a","l">>,
       <<"i","m","m","e","d","i","a","t","e","l","y">>,
       <<"s","e","c","u","r","i","t","y">>,
       <<"b","r","e","a","c","h">>,
       <<"d","a","t","a"," ","l","o","s","s">> >>

\* severity_indicators["medium"]
severity_medium ==
    << <<"i","m","p","o","r","t","a","n","t">>,
       <<"s","i","g","n","i","f","i","c","a","n","t">>,
       <<"m","o","d","e","r","a","t","e">>,
       <<"s","o","o","n">>,
       <<"a","f","f","e","c","t","i","n","g">>,
       <<"p","e","r","f","o","r","m","a","n","c","e">> >>

\* The pieces a pattern of error_patterns is made of: a literal, \s* and .*
Lit(chars) == [kind |-> "lit", chars |-> chars]
WsStar == [kind |-> "ws*", chars |-> <<>>]
AnyStar == [kind |-> "any*", chars |-> <<>>]

error_patterns ==
    << << Lit(<<"e","r","r","o","r">>), WsStar, Lit(<<":">>), WsStar, AnyStar >>,
       << Lit(<<"e","x","c","e","p","t","i","o","n">>), WsStar, Lit(<<":">>), WsStar, AnyStar >>,
       << Lit(<<"f","a","i","l","e","d">>), WsStar, Lit(<<"t","o">>), WsStar, AnyStar >>,
       << Lit(<<"c","a","n","n","o","t">>), WsStar, AnyStar >>,
       << Lit(<<"u","n","a","b","l","e">>), WsStar, Lit(<<"t","o">>), WsStar, AnyStar >> >>

---------------------------------------------------------------------------
(* IssueDetectionAgent: detect_issue, determine_importance, process.       *)

\* `for x in items: if x in s: return ...`: whether the loop returns at or
\* after item i
RECURSIVE AnyIn(_, _, _)
AnyIn(items, s, i) ==
    IF i > Len(items) THEN FALSE
    ELSE IF Contains(s, items[i]) THEN TRUE
    ELSE AnyIn(items, s, i + 1)

\* whether pieces k, k+1, ... of pattern pat match s from offset pos on;
\* literals compare without regard to case (re.IGNORECASE), \s* and .* may
\* take any number of characters they accept (. accepts all but a newline)
RECURSIVE MatchFrom(_, _, _, _)
MatchFrom(pat, k, s, pos) ==
    IF k > Len(pat) THEN TRUE
    ELSE
      LET p == pat[k] IN
      CASE p.kind = "lit" ->
             /\ pos + Len(p.chars) <= Len(s)
             /\ Lower(SubSeq(s, pos + 1, pos + Len(p.chars))) = Lower(p.chars)
             /\ MatchFrom(pat, k + 1, s, pos + Len(p.chars))
        [] p.kind = "ws*" ->
             \E n \in 0..(Len(s) - pos) :
                 /\ \A j \in (pos + 1)..(pos + n) : IsSpace(s[j])
                 /\ MatchFrom(pat, k + 1, s, pos + n)
        [] p.kind = "any*" ->
             \E n \in 0..(Len(s) - pos) :
                 /\ \A j \in (pos + 1)..(pos + n) : s[j] # "\n"
                 /\ MatchFrom(pat, k + 1, s, pos + n)

\* re.search(pattern, s, re.IGNORECASE) finds a match
ReSearch(pat, s) == \E pos \in 0..Len(s) : MatchFrom(pat, 1, s, pos)

\* `for pattern in error_patterns: if re.search(...): return True`
RECURSIVE AnyPattern(_, _, _)
AnyPattern(pats, s, i) ==
    IF i > Len(pats) THEN FALSE
    ELSE IF ReSearch(pats[i], s) THEN TRUE
    ELSE AnyPattern(pats, s, i + 1)

\* a slip a maintainer could make: text.lower() is left out
detect_issue_no_lower(t) ==
    IF AnyIn(issue_keywords, t, 1) THEN TRUE
    ELSE IF AnyPattern(error_patterns, t, 1) THEN TRUE
    ELSE FALSE

detect_issue(t) ==
    LET lowered == Lower(t) IN
    IF AnyIn(issue_keywords, lowered, 1) THEN TRUE
    ELSE IF AnyPattern(error_patterns, lowered, 1) THEN TRUE
    ELSE FALSE

\* a detector that falls back on the "low" entry of the severity table
determine_importance_low_default(t) ==
    LET s == Lower(t) IN
    IF AnyIn(severity_high, s, 1) THEN "critical"
    ELSE IF AnyIn(severity_medium, s, 1) THEN "high"
    ELSE "low"

\* a slip: the medium indicators are looked at first
determine_importance_medium_first(t) ==
    LET lowered == Lower(t) IN
    IF AnyIn(severity_medium, lowered, 1) THEN "high"
    ELSE IF AnyIn(severity_high, lowered, 1) THEN "critical"
    ELSE "medium"

determine_importance(t) ==
    LET lowered == Lower(t) IN
    IF AnyIn(severity_high, lowered, 1) THEN "critical"
    ELSE IF AnyIn(severity_medium, lowered, 1) THEN "high"
    ELSE "medium"

\* the length text[:200] cuts the text to
IssueTextLimit == 200

AutoDetectedTag ==
    <<"A","u","t","o","-","d","e","t","e","c","t","e","d"," ","i","s","s","u","e",":"," ">>

\* a slip: the dots are added from 200 characters on
FormatIssue_dots_at_limit(t) ==
    AutoDetectedTag \o Prefix(t, IssueTextLimit)
        \o (IF Len(t) >= IssueTextLimit THEN <<".", ".", ".">> ELSE <<>>)

\* f"Auto-detected issue: {text[:200]}" + ("..." if len(text) > 200 else "")
FormatIssue(t) ==
    AutoDetectedTag \o Prefix(t, IssueTextLimit)
        \o (IF Len(t) > IssueTextLimit THEN <<".", ".", ".">> ELSE <<>>)

\* the dict IssueDetectionAgent.process returns for input {'text': t}
IssueResult(t) ==
    IF detect_issue(t)
    THEN [issue_detected |-> TRUE,
          issue |-> FormatIssue(t),
          importance |-> determine_importance(t)]
    ELSE [issue_detected |-> FALSE]

\* the prompts the requests of Spec carry
Prompts ==
    { <<"D","B"," ","d","o","w","n">>, <<"F","a","t","a","l">>,
      <<"h","i">>, <<"b","u","g">> }

\* IssueResult over Prompts, computed once
IssueResults == [t \in Prompts |-> IssueResult(t)]

\* IssueResult(t), looked up where it is already computed
IssueResultOf(t) == IF t \in Prompts THEN IssueResults[t] ELSE IssueResult(t)

---------------------------------------------------------------------------
(* Agent: the memory log.                                                  *)

\* the names the agents are constructed with, in the order they are
\* registered with the coordinator, and the coordinator's own
RegisteredAgents ==
    <<"Vision Agent", "Text Agent", "Ticket Agent", "Issue Detection Agent">>

AgentNames ==
    {RegisteredAgents[i] : i \in 1..Len(RegisteredAgents)} \cup {"Coordinator Agent"}

\* the number of records add_to_memory keeps
MemoryLimit == 100

\* a slip: the cut keeps the oldest records, memory[:100]
AddToMemory_keep_oldest(mem, t, data) ==
    LET m == Append(mem, [timestamp |-> t, data |-> data]) IN
    IF Len(m) > MemoryLimit THEN SubSeq(m, 1, MemoryLimit) ELSE m

\* Agent.add_to_memory(data) at clock reading t: the new value of memory
AddToMemory(mem, t, data) ==
    LET m == Append(mem, [timestamp |-> t, data |-> data]) IN
    IF Len(m) > MemoryLimit
    THEN SubSeq(m, Len(m) - MemoryLimit + 1, Len(m))
    ELSE m

\* datetime.now().isoformat(): the reading itself, to the clock's resolution
IsoFormat(t) == t

---------------------------------------------------------------------------
(* Ticket and its JSON form.                                               *)

\* dict.get(key, default)
Get(d, key, default) == IF key \in DOMAIN d THEN d[key] ELSE default

\* how many clock ticks make one second, the resolution of '%Y%m%d%H%M%S'
TicksPerSecond == 2

\* datetime.now().strftime('%Y%m%d%H%M%S'): the reading cut to whole seconds
StrfTime(t) == t \div TicksPerSecond

\* f"ticket_{...}": the second stands for the whole string
TicketIdAt(t) == StrfTime(t)

\* the fields Ticket requires; pydantic rejects data without them
RequiredFields == {"issue", "importance", "time", "ip"}

\* Ticket(**data) at clock reading t: the defaults of the fields and of
\* __init__ (ticket_id and created_at are generated when not given)
Ticket(data, t) ==
    [ticket_id      |-> Get(data, "ticket_id", TicketIdAt(t)),
     issue          |-> data.issue,
     importance     |-> data.importance,
     status         |-> Get(data, "status", "open"),
     time           |-> data.time,
     ip             |-> data.ip,
     auto_generated |-> Get(data, "auto_generated", FALSE),
     created_at     |-> Get(data, "created_at", IsoFormat(t))]

\* the keys of Ticket.dict(), in the order it lists them
TicketKeys ==
    <<"ticket_id", "issue", "importance", "status", "time", "ip",
      "auto_generated", "created_at">>

\* Ticket.dict()
TicketDict(tk) ==
    [ticket_id      |-> tk.ticket_id,
     issue          |-> tk.issue,
     importance     |-> tk.importance,
     status         |-> tk.status,
     time           |-> tk.time,
     ip             |-> tk.ip,
     auto_generated |-> tk.auto_generated,
     created_at     |-> tk.created_at]

\* json.dumps of a ticket dict: the key/value pairs in order, in braces
JsonDumps(d) ==
    <<"{">> \o [i \in 1..Len(TicketKeys) |-> <<TicketKeys[i], d[TicketKeys[i]]>>]
            \o <<"}">>

\* json.dumps of a list of ticket dicts
JsonDumpsList(ds) ==
    <<"[">> \o [i \in 1..Len(ds) |-> JsonDumps(ds[i])] \o <<"]">>

\* whether json.load accepts the content of a file (an empty or cut-off
\* file is rejected)
JsonParses(content) ==
    /\ Len(content) >= 2
    /\ content[1] = "{"
    /\ content[Len(content)] = "}"

\* json.load of an accepted content: the dict of its pairs
JsonLoads(content) ==
    LET pairs == SubSeq(content, 2, Len(content) - 1) IN
    [key \in {pairs[i][1] : i \in 1..Len(pairs)} |->
        pairs[CHOOSE i \in 1..Len(pairs) : pairs[i][1] = key][2]]

\* None, where a Ticket is expected
NoTicket == [none |-> TRUE]

---------------------------------------------------------------------------
(* TicketManager: the storage directory, one file <ticket_id>.json per     *)
(* ticket.  A write can fail before the file is opened (nothing changes)   *)
(* or after open(..., 'w') has emptied it (an unreadable file is left).    *)

SaveOutcomes == {"ok", "open_failed", "write_failed"}
RemoveOutcomes == {"ok", "failed"}

\* save_ticket(ticket): [ok: what it returns, store: the directory after]
save_ticket(st, tk, outcome) ==
    CASE outcome = "ok" ->
           [ok |-> TRUE, store |-> (tk.ticket_id :> JsonDumps(TicketDict(tk))) @@ st]
      [] outcome = "open_failed" ->
           [ok |-> FALSE, store |-> st]
      [] outcome = "write_failed" ->
           [ok |-> FALSE, store |-> (tk.ticket_id :> <<>>) @@ st]

\* load_ticket(ticket_id) at clock reading t: the Ticket, or None
load_ticket(st, id, t) ==
    IF id \notin DOMAIN st THEN NoTicket
    ELSE IF ~JsonParses(st[id]) THEN NoTicket
    ELSE LET data == JsonLoads(st[id]) IN
         IF RequiredFields \subseteq DOMAIN data THEN Ticket(data, t) ELSE NoTicket

\* a list_tickets that leaves the file names in the order os.listdir gave
SortReverse_unsorted(names) == names

\* list.sort(reverse=True) of file names: the ids, largest first
RECURSIVE SortReverse(_)
SortReverse(names) ==
    IF names = <<>> THEN <<>>
    ELSE LET top == CHOOSE i \in 1..Len(names) :
                        \A j \in 1..Len(names) : names[j] <= names[i]
         IN <<names[top]>> \o
            SortReverse([k \in 1..(Len(names) - 1) |->
                            IF k < top THEN names[k] ELSE names[k + 1]])

\* Python's s[a:b] for any integers a and b
PySlice(s, a, b) ==
    LET n == Len(s)
        lo0 == IF a < 0 THEN a + n ELSE a
        hi0 == IF b < 0 THEN b + n ELSE b
        lo == IF lo0 < 0 THEN 0 ELSE IF lo0 > n THEN n ELSE lo0
        hi == IF hi0 < 0 THEN 0 ELSE IF hi0 > n THEN n ELSE hi0
    IN SubSeq(s, lo + 1, hi)

\* the tickets of the files named, skipping a file that does not load
RECURSIVE LoadAll(_, _, _)
LoadAll(st, names, t) ==
    IF names = <<>> THEN <<>>
    ELSE LET tk == load_ticket(st, Head(names), t) IN
         (IF tk = NoTicket THEN <<>> ELSE <<tk>>) \o LoadAll(st, Tail(names), t)

\* list_tickets(limit, offset); listing is os.listdir's answer, the file
\* names in the order the operating system gives them
list_tickets(st, limit, offset, listing, t) ==
    LoadAll(st, PySlice(SortReverse(listing), offset, offset + limit), t)

\* delete_ticket(ticket_id): [ok: what it returns, store: the directory after]
delete_ticket(st, id, outcome) ==
    IF id \notin DOMAIN st THEN [ok |-> FALSE, store |-> st]
    ELSE IF outcome = "ok"
    THEN [ok |-> TRUE, store |-> [k \in DOMAIN st \ {id} |-> st[k]]]
    ELSE [ok |-> FALSE, store |-> st]

\* str(n) of a natural number, character by character
RECURSIVE Decimal(_)
Decimal(n) ==
    LET digit == <<"0", "1", "2", "3", "4", "5", "6", "7", "8", "9">> IN
    IF n < 10 THEN <<digit[n + 1]>>
    ELSE Decimal(n \div 10) \o <<digit[(n % 10) + 1]>>

\* the text json.dumps gives the value of a key: the issue character by
\* character, a ticket id as "ticket_<digits>", a clock reading as its
\* digits, a boolean as true or false, any other string as one piece
JsonValueText(key, v) ==
    CASE key = "issue" -> <<"\"">> \o v \o <<"\"">>
      [] key = "ticket_id" -> <<"\"", "ticket_">> \o Decimal(v) \o <<"\"">>
      [] key \in {"time", "created_at"} -> <<"\"">> \o Decimal(v) \o <<"\"">>
      [] key = "auto_generated" ->
           IF v THEN <<"t", "r", "u", "e">> ELSE <<"f", "a", "l", "s", "e">>
      [] OTHER -> <<"\"", v, "\"">>

\* the text json.dumps(ticket_data) gives from the i-th key on
RECURSIVE JsonTextFrom(_, _)
JsonTextFrom(d, i) ==
    IF i > Len(TicketKeys) THEN <<"}">>
    ELSE LET key == TicketKeys[i] IN
         IF key \notin DOMAIN d THEN JsonTextFrom(d, i + 1)
         ELSE <<"\"", key, "\"", ": ">> \o JsonValueText(key, d[key])
                 \o (IF i < Len(TicketKeys) THEN <<", ">> ELSE <<>>)
                 \o JsonTextFrom(d, i + 1)

\* json.dumps(ticket_data), as text
JsonText(d) == <<"{">> \o JsonTextFrom(d, 1)

\* a search that compares the query and the text as they are written
RECURSIVE search_tickets_case_sensitive(_, _, _, _)
search_tickets_case_sensitive(st, query, listing, t) ==
    IF listing = <<>> THEN <<>>
    ELSE
      LET content == st[Head(listing)]
          rest == search_tickets_case_sensitive(st, query, Tail(listing), t)
      IN IF ~JsonParses(content) THEN rest
         ELSE LET ticket_data == JsonLoads(content) IN
              IF Contains(JsonText(ticket_data), query)
                   /\ RequiredFields \subseteq DOMAIN ticket_data
              THEN <<Ticket(ticket_data, t)>> \o rest
              ELSE rest

\* search_tickets(query): the files in os.listdir's order, those that load
\* and whose lower-cased text holds the lower-cased query
RECURSIVE search_tickets(_, _, _, _)
search_tickets(st, query, listing, t) ==
    IF listing = <<>> THEN <<>>
    ELSE
      LET content == st[Head(listing)]
          rest == search_tickets(st, query, Tail(listing), t)
      IN IF ~JsonParses(content) THEN rest
         ELSE LET ticket_data == JsonLoads(content) IN
              IF Contains(Lower(JsonText(ticket_data)), Lower(query))
                   /\ RequiredFields \subseteq DOMAIN ticket_data
              THEN <<Ticket(ticket_data, t)>> \o rest
              ELSE rest

\* every order os.listdir can give the files of the directory in
Listings(st) ==
    {l \in [1..Cardinality(DOMAIN st) -> DOMAIN st] :
        \A i, j \in 1..Cardinality(DOMAIN st) : i # j => l[i] # l[j]}

---------------------------------------------------------------------------
(* The agents.  Each process(input_data) is an operator of the input, the  *)
(* state S = [tickets, store, memory] it runs in, the clock reading t and  *)
(* what the environment does during the call; it yields whether the call   *)
(* raised, the value returned and the state after.                         *)

Out(raised, value, S) == [raised |-> raised, value |-> value, state |-> S]

StateOf(o) == o.state

\* an exception leaves process: the state reached so far stays
Raise(exception, S) == Out(TRUE, <<exception>>, S)

\* a slip: memory is one list that all agents share (a class attribute)
Remember_shared(S, agent, t, data) ==
    [S EXCEPT !.memory = [a \in DOMAIN @ |-> AddToMemory(@[a], t, data)]]

\* agent.add_to_memory(data) within a call
Remember(S, agent, t, data) ==
    [S EXCEPT !.memory[agent] = AddToMemory(@, t, data)]

\* what the inference service can do with a request
InferenceOutcomes == {"ok", "failed"}

\* response.json()["choices"][0]["message"]["content"] of a good answer
InferenceAnswer == <<"generated text">>

\* str(e) of the exception a failed call ends in
InferenceError == "upstream failure"

\* VisionAgent.process
VisionProcess(input, S, t, outcome) ==
    IF "image_data" \notin DOMAIN input
    THEN Raise("TypeError", S)          \* base64.b64encode(None), outside the try
    ELSE IF outcome = "ok"
    THEN Out(FALSE, InferenceAnswer,
             Remember(S, "Vision Agent", t,
                      [type |-> "vision_analysis", result |-> InferenceAnswer]))
    ELSE Out(FALSE, <<"Error in vision processing: ", InferenceError>>, S)

\* a text agent that writes its record whether or not the call went well
TextProcess_logs_failure(input, S, t, outcome) ==
    LET result == IF outcome = "ok" THEN InferenceAnswer
                  ELSE <<"Error in text processing: ", InferenceError>>
    IN Out(FALSE, result,
           Remember(S, "Text Agent", t,
                    [type |-> "text_analysis", result |-> result]))

\* TextAgent.process
TextProcess(input, S, t, outcome) ==
    IF outcome = "ok"
    THEN Out(FALSE, InferenceAnswer,
             Remember(S, "Text Agent", t,
                      [type |-> "text_analysis", result |-> InferenceAnswer]))
    ELSE Out(FALSE, <<"Error in text processing: ", InferenceError>>, S)

\* the strings TicketAgent.process returns
CreatedMessage(id) == <<"Ticket created successfully. Ticket ID: ", id>>
DeletedMessage(id) == <<"Ticket ", id, " deleted successfully">>
DeleteErrorMessage(id) == <<"Error deleting ticket ", id, " from storage">>
NotFoundMessage == <<"Ticket not found">>
QueryRequiredMessage == <<"Search query is required">>
InvalidActionMessage == <<"Invalid action">>

\* the limit list_tickets has when none is given
DefaultListLimit == 100

\* TicketAgent.process, action 'create'
TicketCreate(input, S, t, e) ==
    IF ~({"issue", "importance", "ip"} \subseteq DOMAIN input)
    THEN Raise("KeyError", S)
    ELSE
      LET tk == Ticket([issue |-> input.issue,
                        importance |-> input.importance,
                        time |-> IsoFormat(t),
                        ip |-> input.ip,
                        auto_generated |-> Get(input, "auto_generated", FALSE)], t)
          cached == [S EXCEPT !.tickets = (tk.ticket_id :> tk) @@ @]
          saved == [cached EXCEPT !.store = save_ticket(@, tk, e.save).store]
      IN Out(FALSE, CreatedMessage(tk.ticket_id),
             Remember(saved, "Ticket Agent", t,
                      [type |-> "ticket_created", ticket_id |-> tk.ticket_id]))

\* TicketAgent.process, action 'list'
TicketList(input, S, t, e) ==
    LET stored == list_tickets(S.store, Get(input, "limit", DefaultListLimit),
                               Get(input, "offset", 0), e.listing, t)
    IN Out(FALSE, JsonDumpsList([i \in 1..Len(stored) |-> TicketDict(stored[i])]), S)

\* a get that answers from the store without keeping the ticket
TicketGet_no_populate(input, S, t, e) ==
    LET id == input.ticket_id IN
    IF id \in DOMAIN S.tickets
    THEN Out(FALSE, JsonDumps(TicketDict(S.tickets[id])), S)
    ELSE LET tk == load_ticket(S.store, id, t) IN
         IF tk # NoTicket
         THEN Out(FALSE, JsonDumps(TicketDict(tk)), S)
         ELSE Out(FALSE, NotFoundMessage, S)

\* TicketAgent.process, action 'get'
TicketGet(input, S, t, e) ==
    LET id == input.ticket_id IN
    IF id \in DOMAIN S.tickets
    THEN Out(FALSE, JsonDumps(TicketDict(S.tickets[id])), S)
    ELSE LET tk == load_ticket(S.store, id, t) IN
         IF tk # NoTicket
         THEN Out(FALSE, JsonDumps(TicketDict(tk)),
                  [S EXCEPT !.tickets = (id :> tk) @@ @])
         ELSE Out(FALSE, NotFoundMessage, S)

\* a delete that looks for the ticket in the cache only
TicketDelete_cached_only(input, S, t, e) ==
    LET id == input.ticket_id
        gone == delete_ticket(S.store, id, e.remove)
    IN
    IF id \in DOMAIN S.tickets
    THEN LET dropped == [S EXCEPT !.tickets = [k \in DOMAIN @ \ {id} |-> @[k]]] IN
         IF gone.ok
         THEN Out(FALSE, DeletedMessage(id),
                  Remember([dropped EXCEPT !.store = gone.store], "Ticket Agent", t,
                           [type |-> "ticket_deleted", ticket_id |-> id]))
         ELSE Out(FALSE, DeleteErrorMessage(id), dropped)
    ELSE Out(FALSE, NotFoundMessage, S)

\* a delete that removes the file and forgets `del self.tickets[ticket_id]`
TicketDelete_keeps_cache(input, S, t, e) ==
    LET id == input.ticket_id
        gone == delete_ticket(S.store, id, e.remove)
        deleted == Remember([S EXCEPT !.store = gone.store], "Ticket Agent", t,
                            [type |-> "ticket_deleted", ticket_id |-> id])
    IN
    IF id \in DOMAIN S.tickets
    THEN IF gone.ok
         THEN Out(FALSE, DeletedMessage(id), deleted)
         ELSE Out(FALSE, DeleteErrorMessage(id), S)
    ELSE IF load_ticket(S.store, id, t) # NoTicket /\ gone.ok
    THEN Out(FALSE, DeletedMessage(id), deleted)
    ELSE Out(FALSE, NotFoundMessage, S)

\* TicketAgent.process, action 'delete'
TicketDelete(input, S, t, e) ==
    LET id == input.ticket_id
        gone == delete_ticket(S.store, id, e.remove)
        deleted == Remember([S EXCEPT !.store = gone.store], "Ticket Agent", t,
                            [type |-> "ticket_deleted", ticket_id |-> id])
    IN
    IF id \in DOMAIN S.tickets
    THEN LET dropped == [S EXCEPT !.tickets = [k \in DOMAIN @ \ {id} |-> @[k]]] IN
         IF gone.ok
         THEN Out(FALSE, DeletedMessage(id),
                  [deleted EXCEPT !.tickets = dropped.tickets])
         ELSE Out(FALSE, DeleteErrorMessage(id), dropped)
    ELSE IF load_ticket(S.store, id, t) # NoTicket /\ gone.ok
    THEN Out(FALSE, DeletedMessage(id), deleted)
    ELSE Out(FALSE, NotFoundMessage, S)

\* TicketAgent.process, action 'search'
TicketSearch(input, S, t, e) ==
    LET query == Get(input, "query", <<>>) IN
    IF query = <<>>
    THEN Out(FALSE, QueryRequiredMessage, S)
    ELSE LET matching_tickets == search_tickets(S.store, query, e.listing, t) IN
         Out(FALSE,
             JsonDumpsList([i \in 1..Len(matching_tickets) |->
                               TicketDict(matching_tickets[i])]),
             S)

\* TicketAgent.process
TicketProcess(input, S, t, e) ==
    LET action == Get(input, "action", "create") IN
    CASE action = "create" -> TicketCreate(input, S, t, e)
      [] action = "list" -> TicketList(input, S, t, e)
      [] action = "get" -> TicketGet(input, S, t, e)
      [] action = "delete" -> TicketDelete(input, S, t, e)
      [] action = "search" -> TicketSearch(input, S, t, e)
      [] OTHER -> Out(FALSE, InvalidActionMessage, S)

\* a detector whose process does not ask detect_issue
IssueProcess_always_detects(t0, S, t) ==
    LET result == [issue_detected |-> TRUE,
                   issue |-> FormatIssue(t0),
                   importance |-> determine_importance(t0)]
    IN Out(FALSE, result,
           Remember(S, "Issue Detection Agent", t,
                    [type |-> "issue_detected", issue |-> result.issue,
                     importance |-> result.importance]))

\* IssueDetectionAgent.process for input {'text': t0}: the dict returned,
\* and the record it leaves in its log when it detects an issue
IssueProcess(t0, S, t) ==
    LET result == IssueResultOf(t0) IN
    IF result.issue_detected
    THEN Out(FALSE, result,
             Remember(S, "Issue Detection Agent", t,
                      [type |-> "issue_detected", issue |-> result.issue,
                       importance |-> result.importance]))
    ELSE Out(FALSE, result, S)

---------------------------------------------------------------------------
(* CoordinatorAgent.                                                       *)

\* None, where the auto_ticket dict is expected
NoAutoTicket == [none |-> TRUE]

\* the address a ticket gets when the request carries none
FallbackIp == "127.0.0.1"

\* a coordinator that runs the detector on requests of every type
RunsDetection_any_type(query_type) ==
    /\ "Issue Detection Agent" \in {RegisteredAgents[i] : i \in 1..Len(RegisteredAgents)}
    /\ "Ticket Agent" \in {RegisteredAgents[i] : i \in 1..Len(RegisteredAgents)}

\* `issue_agent and ticket_agent and query_type == 'text'`: both agents
\* are registered when the module is loaded
RunsDetection(query_type) ==
    /\ "Issue Detection Agent" \in {RegisteredAgents[i] : i \in 1..Len(RegisteredAgents)}
    /\ "Ticket Agent" \in {RegisteredAgents[i] : i \in 1..Len(RegisteredAgents)}
    /\ query_type = "text"

\* a coordinator that gives every auto-created ticket the fallback address
AutoCreateInput_fallback_ip(input, issue_result) ==
    [action |-> "create",
     issue |-> issue_result.issue,
     importance |-> issue_result.importance,
     ip |-> FallbackIp,
     auto_generated |-> TRUE]

\* the input the coordinator hands to the ticket agent for a detected issue
AutoCreateInput(input, issue_result) ==
    [action |-> "create",
     issue |-> issue_result.issue,
     importance |-> issue_result.importance,
     ip |-> Get(input, "ip", FallbackIp),
     auto_generated |-> TRUE]

\* the auto_ticket dict built from the ticket agent's answer
AutoTicket(ticket_result, issue_result) ==
    [created |-> TRUE,
     message |-> ticket_result,
     issue |-> issue_result.issue,
     importance |-> issue_result.importance]

\* the dict process returns; `if auto_ticket:` is true of every dict built
ResultDict(response, auto_ticket) ==
    IF auto_ticket # NoAutoTicket
    THEN [response |-> response, result |-> response, auto_ticket |-> auto_ticket]
    ELSE [response |-> response, result |-> response]

\* agent.process(input_data) of a registered agent
AgentProcess(name, input, S, t, e) ==
    CASE name = "Vision Agent" -> VisionProcess(input, S, t, e.vision)
      [] name = "Text Agent" -> TextProcess(input, S, t, e.text)
      [] name = "Ticket Agent" -> TicketProcess(input, S, t, e)

\* "\n".join(lines)
RECURSIVE JoinLines(_)
JoinLines(lines) ==
    IF Len(lines) = 0 THEN <<>>
    ELSE IF Len(lines) = 1 THEN lines[1]
    ELSE lines[1] \o <<"\n">> \o JoinLines(Tail(lines))

\* the loop over self.agents.values() from the i-th registered agent on
RECURSIVE FanOut(_, _, _, _, _, _)
FanOut(i, input, S, t, e, combined_response) ==
    IF i > Len(RegisteredAgents)
    THEN Out(FALSE, JoinLines(combined_response), S)
    ELSE
      LET name == RegisteredAgents[i] IN
      IF name = "Issue Detection Agent"
      THEN FanOut(i + 1, input, S, t, e, combined_response)
      ELSE LET r == AgentProcess(name, input, S, t, e) IN
           IF r.raised THEN r
           ELSE FanOut(i + 1, input, StateOf(r), t, e,
                       Append(combined_response, <<name, ": ">> \o r.value))

\* a coordinator that asks the text agent first and files the ticket only
\* when the agent gave an answer
CoordProcess_ticket_after_answer(input, S, t, e) ==
    LET query_type == Get(input, "type", "text")
        prompt == Get(input, "prompt", <<>>)
        primary ==
            CASE query_type = "vision" -> VisionProcess(input, S, t, e.vision)
              [] query_type = "text" -> TextProcess(input, S, t, e.text)
              [] OTHER -> FanOut(1, input, S, t, e, <<>>)
        answered ==
            /\ ~primary.raised
            /\ primary.value[1] # "Error in text processing: "
        detection ==
            IF RunsDetection(query_type) /\ answered
            THEN IssueProcess(prompt, StateOf(primary), t)
            ELSE Out(FALSE, [issue_detected |-> FALSE], StateOf(primary))
        detected == detection.value.issue_detected
        ticketing ==
            IF detected
            THEN TicketProcess(AutoCreateInput(input, detection.value),
                               StateOf(detection), t, e)
            ELSE Out(FALSE, <<>>, StateOf(detection))
        auto_ticket ==
            IF detected
            THEN AutoTicket(ticketing.value, detection.value)
            ELSE NoAutoTicket
    IN
    IF primary.raised THEN primary
    ELSE IF ticketing.raised THEN ticketing
    ELSE Out(FALSE, ResultDict(primary.value, auto_ticket),
             Remember(StateOf(ticketing), "Coordinator Agent", t,
                      [type |-> "coordination",
                       query_type |-> query_type,
                       response |-> primary.value,
                       auto_ticket |-> auto_ticket]))

\* a coordinator that writes its record also when an agent raised
CoordProcess_logs_raise(input, S, t, e) ==
    LET query_type == Get(input, "type", "text")
        prompt == Get(input, "prompt", <<>>)
        detection ==
            IF RunsDetection(query_type)
            THEN IssueProcess(prompt, S, t)
            ELSE Out(FALSE, [issue_detected |-> FALSE], S)
        detected == detection.value.issue_detected
        ticketing ==
            IF detected
            THEN TicketProcess(AutoCreateInput(input, detection.value),
                               StateOf(detection), t, e)
            ELSE Out(FALSE, <<>>, StateOf(detection))
        auto_ticket ==
            IF detected
            THEN AutoTicket(ticketing.value, detection.value)
            ELSE NoAutoTicket
        primary ==
            CASE query_type = "vision" ->
                   VisionProcess(input, StateOf(ticketing), t, e.vision)
              [] query_type = "text" ->
                   TextProcess(input, StateOf(ticketing), t, e.text)
              [] OTHER ->
                   FanOut(1, input, StateOf(ticketing), t, e, <<>>)
        logged ==
            Remember(StateOf(primary), "Coordinator Agent", t,
                     [type |-> "coordination",
                      query_type |-> query_type,
                      response |-> primary.value,
                      auto_ticket |-> auto_ticket])
    IN
    IF ticketing.raised THEN ticketing
    ELSE IF primary.raised THEN Out(TRUE, primary.value, logged)
    ELSE Out(FALSE, ResultDict(primary.value, auto_ticket), logged)

\* CoordinatorAgent.process
CoordProcess(input, S, t, e) ==
    LET query_type == Get(input, "type", "text")
        prompt == Get(input, "prompt", <<>>)
        detection ==
            IF RunsDetection(query_type)
            THEN IssueProcess(prompt, S, t)
            ELSE Out(FALSE, [issue_detected |-> FALSE], S)
        detected == detection.value.issue_detected
        ticketing ==
            IF detected
            THEN TicketProcess(AutoCreateInput(input, detection.value),
                               StateOf(detection), t, e)
            ELSE Out(FALSE, <<>>, StateOf(detection))
        auto_ticket ==
            IF detected
            THEN AutoTicket(ticketing.value, detection.value)
            ELSE NoAutoTicket
        primary ==
            CASE query_type = "vision" ->
                   VisionProcess(input, StateOf(ticketing), t, e.vision)
              [] query_type = "text" ->
                   TextProcess(input, StateOf(ticketing), t, e.text)
              [] OTHER ->
                   FanOut(1, input, StateOf(ticketing), t, e, <<>>)
    IN
    IF ticketing.raised THEN ticketing
    ELSE IF primary.raised THEN primary
    ELSE Out(FALSE, ResultDict(primary.value, auto_ticket),
             Remember(StateOf(primary), "Coordinator Agent", t,
                      [type |-> "coordination",
                       query_type |-> query_type,
                       response |-> primary.value,
                       auto_ticket |-> auto_ticket]))

\* the input the /ticket endpoint hands to the ticket agent
create_ticket(ticket_data, client_ip) ==
    [action |-> "create",
     issue |-> Get(ticket_data, "issue", <<>>),
     importance |-> Get(ticket_data, "importance", "medium"),
     ip |-> client_ip]

\* the state a call runs in
Current == [tickets |-> tickets, store |-> store, memory |-> memory]

---------------------------------------------------------------------------
(* Values the variables hold while a specification does not use them.      *)

EmptyMap == [k \in {} |-> k]
NoMemory == [a \in AgentNames |-> <<>>]
NoCall == [call |-> "none"]
NoRequest == [action |-> "none"]
NoReturn == [raised |-> FALSE, value |-> <<>>]
NoEnv == [none |-> TRUE]

---------------------------------------------------------------------------
(* SpecText: detect_issue and determine_importance applied to texts made   *)
(* of up to MaxFragments fragments.                                        *)

MaxFragments == 3

TextFragments ==
    { <<"b","u","g">>,
      <<"C","R","A","S","H">>,
      <<"C","a","n","n","o","t">>,
      <<"u","n","a","b","l","e">>,
      <<" ">>,
      <<"T","o">>,
      <<"u","r","g","e","n","t">>,
      <<"I","m","p","o","r","t","a","n","t">>,
      <<"s","e","c","u","r","i","t","y">>,
      <<"o","k">> }

RECURSIVE TextsOf(_)
TextsOf(n) ==
    IF n = 0 THEN {<<>>}
    ELSE LET shorter == TextsOf(n - 1) IN
         shorter \cup {t \o f : t \in shorter, f \in TextFragments}

TextInputs == TextsOf(MaxFragments)

InitText ==
    /\ text \in TextInputs
    /\ out = NoCall
    /\ memory = NoMemory /\ appended = NoMemory
    /\ now = 0 /\ tickets = EmptyMap /\ store = EmptyMap
    /\ op = "none" /\ req = NoRequest /\ env = NoEnv /\ ret = NoReturn
    /\ nOps = 0 /\ created = EmptyMap

CallDetectIssue ==
    /\ out' = [call |-> "detect_issue", value |-> detect_issue(text)]
    /\ UNCHANGED <<text, memory, appended, now, tickets, store, op, req, env, ret,
                   nOps, created>>

CallDetermineImportance ==
    /\ out' = [call |-> "determine_importance", value |-> determine_importance(text)]
    /\ UNCHANGED <<text, memory, appended, now, tickets, store, op, req, env, ret,
                   nOps, created>>

NextText == CallDetectIssue \/ CallDetermineImportance

SpecText == InitText /\ [][NextText]_vars

---------------------------------------------------------------------------
(* SpecIssue: IssueDetectionAgent.process applied to texts around the      *)
(* length at which the issue text is cut: a word and up to MaxPad filler   *)
(* characters, before it or after it.                                      *)

MaxPad == 203

IssueWords ==
    { <<"b","u","g">>, <<"C","R","A","S","H">>, <<"o","k">> }

Pad(n) == [i \in 1..n |-> "x"]

IssueTexts ==
    {w \o Pad(n) : w \in IssueWords, n \in 0..MaxPad}
       \cup {Pad(n) \o w : w \in IssueWords, n \in 0..MaxPad}

InitIssue ==
    /\ text \in IssueTexts
    /\ out = NoCall
    /\ memory = NoMemory /\ appended = NoMemory
    /\ now = 0 /\ tickets = EmptyMap /\ store = EmptyMap
    /\ op = "none" /\ req = NoRequest /\ env = NoEnv /\ ret = NoReturn
    /\ nOps = 0 /\ created = EmptyMap

\* issue_agent.process({'text': text}), once
CallIssueProcess ==
    /\ out = NoCall
    /\ \E o \in {IssueProcess(text, Current, now)} :
          /\ out' = [call |-> "process", value |-> o.value]
          /\ memory' = o.state.memory
    /\ UNCHANGED <<text, appended, now, tickets, store, op, req, env, ret,
                   nOps, created>>

NextIssue == CallIssueProcess

SpecIssue == InitIssue /\ [][NextIssue]_vars

---------------------------------------------------------------------------
(* SpecMem: add_to_memory called up to MaxAppends times on each of two     *)
(* agents; the k-th record an agent is given carries the number k.         *)

MaxAppends == 103

MemAgents == {"Text Agent", "Ticket Agent"}

InitMem ==
    /\ memory = NoMemory /\ appended = NoMemory
    /\ text = <<>> /\ out = NoCall
    /\ now = 0 /\ tickets = EmptyMap /\ store = EmptyMap
    /\ op = "none" /\ req = NoRequest /\ env = NoEnv /\ ret = NoReturn
    /\ nOps = 0 /\ created = EmptyMap

CallAddToMemory(a) ==
    /\ Len(appended[a]) < MaxAppends
    /\ LET data == [type |-> "note", n |-> Len(appended[a]) + 1] IN
       /\ memory' = [memory EXCEPT ![a] = AddToMemory(@, IsoFormat(now), data)]
       /\ appended' = [appended EXCEPT
                         ![a] = Append(@, [timestamp |-> IsoFormat(now), data |-> data])]
    /\ UNCHANGED <<text, out, now, tickets, store, op, req, env, ret, nOps, created>>

NextMem == \E a \in MemAgents : CallAddToMemory(a)

SpecMem == InitMem /\ [][NextMem]_vars

---------------------------------------------------------------------------
(* Properties of the memory log (SpecMem).                                 *)

\* C8: after any sequence of add_to_memory calls an agent's log holds at
\* most 100 records; once more than 100 were appended it holds exactly 100;
\* and it is always the most recent records, in the order they were
\* appended (the oldest are evicted first).
C8_MemoryBoundedFifo ==
    \A a \in AgentNames :
        LET n == Len(appended[a])
            k == Len(memory[a])
        IN /\ k <= 100
           /\ (n > 100 => k = 100)
           /\ (n <= 100 => k = n)
           /\ \A i \in 1..k : memory[a][i] = appended[a][n - k + i]

\* C8 witness: an agent was given at least two records more than the log
\* keeps, and the log starts at the oldest record not yet evicted.
C8_Witness ==
    \E a \in MemAgents :
        /\ Len(appended[a]) >= 102
        /\ Len(memory[a]) = 100
        /\ memory[a][1].data.n = Len(appended[a]) - 99
        /\ memory[a][100].data.n = Len(appended[a])

---------------------------------------------------------------------------
(* Properties of the detector's pure functions (SpecText).                 *)

\* s holds x and, after it, only white space and then y
FollowedBy(s, x, y) ==
    \E a \in 0..Len(s), b \in 0..Len(s) :
        /\ a + Len(x) <= b
        /\ b + Len(y) <= Len(s)
        /\ SubSeq(s, a + 1, a + Len(x)) = x
        /\ SubSeq(s, b + 1, b + Len(y)) = y
        /\ \A j \in (a + Len(x) + 1)..b : s[j] \in {" ", "\t", "\n", "\r"}

HasKeyword(s) ==
    \E i \in 1..Len(issue_keywords) : Contains(s, issue_keywords[i])

\* what the five error patterns accept, each read off its regular expression
HasErrorPattern(s) ==
    \/ FollowedBy(s, <<"e","r","r","o","r">>, <<":">>)
    \/ FollowedBy(s, <<"e","x","c","e","p","t","i","o","n">>, <<":">>)
    \/ FollowedBy(s, <<"f","a","i","l","e","d">>, <<"t","o">>)
    \/ Contains(s, <<"c","a","n","n","o","t">>)
    \/ FollowedBy(s, <<"u","n","a","b","l","e">>, <<"t","o">>)

\* C9: detect_issue(text) is true exactly when the lower-cased text
\* contains a configured keyword or matches a configured error pattern,
\* and false for every text with none of them.
C9_DetectIffKeywordOrPattern ==
    out.call = "detect_issue" =>
        out.value = (HasKeyword(Lower(text)) \/ HasErrorPattern(Lower(text)))

\* C9 witness: a text with capital letters and no keyword that only an
\* error pattern makes detect_issue accept.
C9_Witness ==
    /\ out.call = "detect_issue"
    /\ out.value = TRUE
    /\ text # Lower(text)
    /\ ~HasKeyword(Lower(text))

HasHighIndicator(s) ==
    \E i \in 1..Len(severity_high) : Contains(s, severity_high[i])

HasMediumIndicator(s) ==
    \E i \in 1..Len(severity_medium) : Contains(s, severity_medium[i])

\* C10: determine_importance is critical for every text with a
\* high-severity indicator, with or without medium-severity ones; high
\* when only medium-severity indicators are present; medium otherwise.
C10_ImportancePrecedence ==
    out.call = "determine_importance" =>
        LET s == Lower(text) IN
        /\ HasHighIndicator(s) => out.value = "critical"
        /\ (~HasHighIndicator(s) /\ HasMediumIndicator(s)) => out.value = "high"
        /\ (~HasHighIndicator(s) /\ ~HasMediumIndicator(s)) => out.value = "medium"

\* C10 witness: a text with a medium-severity indicator before a
\* high-severity one, classified critical.
C10_Witness ==
    /\ out.call = "determine_importance"
    /\ out.value = "critical"
    /\ HasMediumIndicator(Lower(text))
    /\ HasHighIndicator(Lower(text))
    /\ Contains(Lower(Prefix(text, 9)), severity_medium[1])

---------------------------------------------------------------------------
(* Spec: the running service.  Requests arrive one at a time, the clock    *)
(* moves between them, and the disk and the inference service succeed or   *)
(* fail as they please.                                                    *)

\* the clock stops at MaxClock ticks
MaxClock == 2

\* at most MaxOps calls leave a record in a memory log
MaxOps == 2

\* every id the clock can give a ticket
TicketIds == 0..StrfTime(MaxClock)

\* request.client.host
ClientIp == "10.0.0.5"

\* bodies of POST /ticket: without importance, and without issue
TicketDataInputs ==
    { [issue |-> <<"j","a","m">>],
      [importance |-> "whenever"] }

CoordRequests ==
    { [type |-> "text", prompt |-> <<"D","B"," ","d","o","w","n">>, ip |-> ClientIp],
      [prompt |-> <<"F","a","t","a","l">>],
      [type |-> "text", prompt |-> <<"h","i">>, ip |-> ClientIp],
      [type |-> "vision", prompt |-> <<"b","u","g">>, image_data |-> "jpeg"],
      [type |-> "vision", prompt |-> <<"h","i">>],
      [type |-> "multi", prompt |-> <<"b","u","g">>, image_data |-> "jpeg",
       action |-> "list"],
      [type |-> "multi", prompt |-> <<"h","i">>],
      [type |-> "multi", prompt |-> <<"h","i">>, image_data |-> "jpeg"] }

\* search requests: a query in capitals that the issue "jam" holds, one that
\* nothing holds, an empty one and none
SearchInputs ==
    { [action |-> "search", query |-> <<"J", "A">>],
      [action |-> "search", query |-> <<"x", "y", "z">>],
      [action |-> "search", query |-> <<>>],
      [action |-> "search"] }

ListLimits == {1, 100}
ListOffsets == {0, 1}

\* one order of the directory's files, where the order does not matter
SomeListing(st) == CHOOSE l \in Listings(st) : TRUE

\* TicketAgent.__init__: the cache holds what list_tickets() finds
LoadedCache(st, t) ==
    LET found == list_tickets(st, DefaultListLimit, 0, SomeListing(st), t) IN
    [id \in {found[i].ticket_id : i \in 1..Len(found)} |->
        found[CHOOSE i \in 1..Len(found) : found[i].ticket_id = id]]

\* `out` keeps where a get or a delete found the ticket when it was called:
\* in the cache, as a file of the directory, as a file that loads
Found(id) ==
    [call |-> "lookup",
     cached |-> id \in DOMAIN tickets,
     file |-> id \in DOMAIN store,
     stored |-> load_ticket(store, id, now) # NoTicket]

\* `created` keeps, for each id, the values every create since the last
\* delete of that id was called with
Noted(id, values) ==
    [k \in DOMAIN created \cup {id} |->
        IF k = id
        THEN (IF id \in DOMAIN created THEN created[id] ELSE {}) \cup {values}
        ELSE created[k]]

Init ==
    /\ now = 0
    /\ store = EmptyMap
    /\ tickets = LoadedCache(store, now)
    /\ memory = NoMemory
    /\ op = "none" /\ req = NoRequest /\ env = NoEnv /\ ret = NoReturn
    /\ nOps = 0 /\ created = EmptyMap
    /\ text = <<>> /\ out = NoCall /\ appended = NoMemory

\* the state a call leaves and what it returned; a call that leaves a
\* record in a log uses up one of the MaxOps
Effect(o) ==
    /\ tickets' = o.state.tickets
    /\ store' = o.state.store
    /\ memory' = o.state.memory
    /\ ret' = [raised |-> o.raised, value |-> o.value]
    /\ nOps' = IF o.state.memory = memory THEN nOps ELSE nOps + 1
    /\ nOps' <= MaxOps

Tick ==
    /\ now < MaxClock
    /\ now' = now + 1
    /\ UNCHANGED <<text, out, memory, appended, tickets, store, op, req, env,
                   ret, nOps, created>>

\* POST /ticket
CreateTicket(ticket_data, save) ==
    /\ LET input == create_ticket(ticket_data, ClientIp)
           e == [save |-> save]
       IN \E o \in {TicketProcess(input, Current, now, e)} :
          /\ Effect(o)
          /\ op' = "create" /\ req' = input /\ env' = e
          /\ created' =
               IF o.raised THEN created
               ELSE Noted(o.value[2],
                          [ticket_id |-> o.value[2], issue |-> input.issue,
                           importance |-> input.importance, ip |-> input.ip,
                           auto_generated |-> FALSE,
                           created_at |-> IsoFormat(now)])
    /\ out' = NoCall
    /\ UNCHANGED <<text, appended, now>>

\* ticket_agent.process({'action': 'get', 'ticket_id': id})
GetTicket(id) ==
    /\ LET input == [action |-> "get", ticket_id |-> id]
       IN \E o \in {TicketProcess(input, Current, now, NoEnv)} :
          /\ Effect(o)
          /\ op' = "get" /\ req' = input /\ env' = NoEnv
    /\ out' = Found(id)
    /\ UNCHANGED <<text, appended, now, created>>

\* GET /tickets/list
ListTickets(limit, offset, listing) ==
    /\ LET input == [action |-> "list", limit |-> limit, offset |-> offset]
           e == [listing |-> listing]
       IN \E o \in {TicketProcess(input, Current, now, e)} :
          /\ Effect(o)
          /\ op' = "list" /\ req' = input /\ env' = NoEnv
    /\ out' = NoCall
    /\ UNCHANGED <<text, appended, now, created>>

\* ticket_agent.process({'action': 'search', 'query': q}), also without q
SearchTickets(input, listing) ==
    /\ \E o \in {TicketProcess(input, Current, now, [listing |-> listing])} :
          /\ Effect(o)
          /\ op' = "search" /\ req' = input /\ env' = NoEnv
    /\ out' = NoCall
    /\ UNCHANGED <<text, appended, now, created>>

\* DELETE /tickets/{ticket_id}
DeleteTicket(id, remove) ==
    /\ LET input == [action |-> "delete", ticket_id |-> id]
           e == [remove |-> remove]
       IN \E o \in {TicketProcess(input, Current, now, e)} :
          /\ Effect(o)
          /\ op' = "delete" /\ req' = input /\ env' = e
          /\ created' = [k \in DOMAIN created \ {id} |-> created[k]]
    /\ out' = Found(id)
    /\ UNCHANGED <<text, appended, now>>

\* the ticket agent reads the directory only when the fan-out asks it to list
ReadsDirectory(request) ==
    /\ Get(request, "type", "text") \notin {"text", "vision"}
    /\ Get(request, "action", "create") = "list"

\* what the environment can do during coordinator.process(request); the
\* parts the call does not reach are fixed
CoordEnvs(request, st) ==
    LET query_type == Get(request, "type", "text")
        creates == RunsDetection(query_type)
                     /\ IssueResultOf(Get(request, "prompt", <<>>)).issue_detected
    IN { e \in [vision : InferenceOutcomes, text : InferenceOutcomes,
                save : SaveOutcomes, remove : {"ok"},
                listing : IF ReadsDirectory(request) THEN Listings(st)
                          ELSE {SomeListing(st)}] :
           /\ (query_type = "text" \/ "image_data" \notin DOMAIN request)
                 => e.vision = "ok"
           /\ (query_type = "vision"
                  \/ (query_type # "text" /\ "image_data" \notin DOMAIN request))
                 => e.text = "ok"
           /\ ~creates => e.save = "ok" }

\* the text agent's call for a text request went well
AnsweredText(request, e) ==
    Get(request, "type", "text") = "text" => e.text = "ok"

\* coordinator.process(request)
Coordinate(request, e) ==
    /\ \E o \in {CoordProcess(request, Current, now, e)} :
       /\ Effect(o)
       /\ op' = "coordinate" /\ req' = request
       /\ env' = [vision |-> e.vision, text |-> e.text, save |-> e.save]
       /\ created' =
            IF ~o.raised /\ "auto_ticket" \in DOMAIN o.value
            THEN LET a == o.value.auto_ticket IN
                 Noted(a.message[2],
                       [ticket_id |-> a.message[2], issue |-> a.issue,
                        importance |-> a.importance,
                        ip |-> Get(request, "ip", FallbackIp),
                        auto_generated |-> TRUE,
                        created_at |-> IsoFormat(now)])
            ELSE created
    /\ out' = NoCall
    /\ UNCHANGED <<text, appended, now>>

Next ==
    \/ Tick
    \/ \E d \in TicketDataInputs, save \in SaveOutcomes : CreateTicket(d, save)
    \/ \E id \in TicketIds : GetTicket(id)
    \/ \E limit \in ListLimits, offset \in ListOffsets :
          \E listing \in Listings(store) : ListTickets(limit, offset, listing)
    \/ \E input \in SearchInputs :
          \E listing \in Listings(store) : SearchTickets(input, listing)
    \/ \E id \in TicketIds, remove \in RemoveOutcomes : DeleteTicket(id, remove)
    \/ \E request \in CoordRequests :
          \E e \in {x \in CoordEnvs(request, store) : AnsweredText(request, x)} :
              Coordinate(request, e)

Spec == Init /\ [][Next]_vars

---------------------------------------------------------------------------
(* SpecCoord: the coordinator beside creates and deletes of tickets, with  *)
(* every outcome of the inference calls, also a text request whose call    *)
(* fails (Spec takes the answer to a text request as given).               *)

NextCoord ==
    \/ Tick
    \/ \E d \in TicketDataInputs, save \in SaveOutcomes : CreateTicket(d, save)
    \/ \E id \in TicketIds, remove \in RemoveOutcomes : DeleteTicket(id, remove)
    \/ \E request \in CoordRequests :
          \E e \in CoordEnvs(request, store) : Coordinate(request, e)

SpecCoord == Init /\ [][NextCoord]_vars

---------------------------------------------------------------------------
(* SpecTwo: two POST /text requests are in flight at once.  The handlers   *)
(* are coroutines of one event loop (uvicorn.run serves the app in one     *)
(* process), and coordinator.process awaits only coroutines that call      *)
(* blocking code (requests.post, open, json.dump), so a handler never      *)
(* gives up the loop half way: the two run one after the other, in either  *)
(* order, with the clock free to move before, between and after them.      *)

\* the dict POST /text hands to the coordinator
process_text(prompt, client_ip) ==
    [type |-> "text", prompt |-> prompt, ip |-> client_ip]

\* the requests in flight: prompts the detector flags
FlaggedRequests ==
    { process_text(<<"D","B"," ","d","o","w","n">>, ClientIp),
      process_text(<<"F","a","t","a","l">>, ClientIp) }

\* req holds the two requests, out what each handler returned, when it ran
\* and what the disk did with its save
InitTwo ==
    /\ req \in [1..2 -> FlaggedRequests]
    /\ out = [i \in 1..2 |-> NoCall]
    /\ now = 0
    /\ store = EmptyMap
    /\ tickets = LoadedCache(store, now)
    /\ memory = NoMemory
    /\ op = "none" /\ env = NoEnv /\ ret = NoReturn
    /\ nOps = 0 /\ created = EmptyMap
    /\ text = <<>> /\ appended = NoMemory

\* the event loop runs the handler of request i to its end
Handle(i, e) ==
    /\ out[i] = NoCall
    /\ \E o \in {CoordProcess(req[i], Current, now, e)} :
          /\ Effect(o)
          /\ out' = [out EXCEPT ![i] = [call |-> "coordinate", at |-> now,
                                        save |-> e.save, raised |-> o.raised,
                                        value |-> o.value]]
    /\ op' = "coordinate"
    /\ env' = [vision |-> e.vision, text |-> e.text, save |-> e.save]
    /\ UNCHANGED <<text, appended, now, req, created>>

NextTwo ==
    \/ Tick
    \/ \E i \in 1..2 : \E e \in CoordEnvs(req[i], store) : Handle(i, e)

SpecTwo == InitTwo /\ [][NextTwo]_vars

---------------------------------------------------------------------------
(* SpecDetect: issue_detection_agent.process called on its own, any number *)
(* of times, between creates of tickets and ticks of the clock.            *)

\* the detector's log gets at most MaxDetections records
MaxDetections == 2

\* issue_detection_agent.process({'text': t})
CallDetect(t) ==
    /\ Len(memory["Issue Detection Agent"]) < MaxDetections
    /\ \E o \in {IssueProcess(t, Current, now)} :
          /\ tickets' = o.state.tickets
          /\ store' = o.state.store
          /\ memory' = o.state.memory
          /\ ret' = [raised |-> o.raised, value |-> o.value]
    /\ op' = "detect" /\ req' = [text |-> t] /\ env' = NoEnv
    /\ out' = NoCall
    /\ UNCHANGED <<text, appended, now, nOps, created>>

NextDetect ==
    \/ Tick
    \/ \E d \in TicketDataInputs, save \in SaveOutcomes : CreateTicket(d, save)
    \/ \E t \in Prompts : CallDetect(t)

SpecDetect == Init /\ [][NextDetect]_vars

---------------------------------------------------------------------------
(* Properties of Spec.                                                     *)

\* a step in which a create ran to its end: POST /ticket, or a coordinator
\* request that got an auto_ticket
CreateStep ==
    /\ now' = now
    /\ ~ret'.raised
    /\ \/ op' = "create"
       \/ op' = "coordinate" /\ "auto_ticket" \in DOMAIN ret'.value

\* the id in the confirmation string of that create
NewId ==
    IF op' = "create" THEN ret'.value[2]
    ELSE ret'.value.auto_ticket.message[2]

\* C1: each create, explicit or auto-detected, at whatever clock reading,
\* gives the new ticket an id that no ticket in the cache or the store has;
\* it replaces no existing ticket, and the store grows by exactly one
\* ticket per create.  (The store can only grow when the save succeeds, so
\* the growth is asked of those creates alone.)
C1_FreshIdPerCreate ==
    [][CreateStep =>
         /\ NewId \notin DOMAIN tickets \cup DOMAIN store
         /\ env'.save = "ok" =>
              Cardinality(DOMAIN store') = Cardinality(DOMAIN store) + 1]_vars

\* the request is a text request whose prompt the detector flags
FlaggedText(request) ==
    /\ Get(request, "type", "text") = "text"
    /\ detect_issue(Get(request, "prompt", <<>>))

\* C3: when the save of the auto-created ticket fails during a text
\* request, coordinator.process does not raise, returns the text agent's
\* response, and its auto_ticket says the ticket was not created.
C3_FailedSaveReported ==
    (op = "coordinate" /\ FlaggedText(req) /\ env.save # "ok") =>
        /\ ~ret.raised
        /\ ret.value.response \in
              {InferenceAnswer, <<"Error in text processing: ", InferenceError>>}
        /\ "auto_ticket" \in DOMAIN ret.value
        /\ ret.value.auto_ticket.created = FALSE

\* C4: whenever create returns "Ticket created successfully. Ticket ID:
\* <id>", the store holds a readable ticket with that id.
C4_AcknowledgedIsStored ==
    (op = "create" /\ ~ret.raised /\ ret.value[1] = CreatedMessage(0)[1]) =>
        /\ ret.value[2] \in DOMAIN store
        /\ load_ticket(store, ret.value[2], now) # NoTicket

\* C2: when coordinator.process handles a text request whose prompt the
\* detector flags, the ticket agent creates exactly one ticket: its log
\* gains one ticket_created record, the ticket of that record has
\* auto_generated true, the detector's issue and importance for the prompt
\* and the request's ip (the fallback address only when the request has
\* none), and no other ticket of the cache or the store changes.
C2_AutoTicketFromDetection ==
    [][(now' = now /\ op' = "coordinate" /\ FlaggedText(req')) =>
         LET detected == IssueResult(Get(req', "prompt", <<>>))
             before == memory["Ticket Agent"]
             after == memory'["Ticket Agent"]
         IN /\ ~ret'.raised
            /\ Len(after) = Len(before) + 1
            /\ SubSeq(after, 1, Len(before)) = before
            /\ after[Len(after)].data.type = "ticket_created"
            /\ LET id == after[Len(after)].data.ticket_id IN
               /\ id \in DOMAIN tickets'
               /\ tickets'[id].auto_generated = TRUE
               /\ tickets'[id].issue = detected.issue
               /\ tickets'[id].importance = detected.importance
               /\ tickets'[id].ip =
                     (IF "ip" \in DOMAIN req' THEN req'.ip ELSE FallbackIp)
               /\ env'.save = "ok" =>
                     /\ id \in DOMAIN store'
                     /\ load_ticket(store', id, now) = tickets'[id]
               /\ \A k \in DOMAIN tickets' \ {id} :
                     k \in DOMAIN tickets /\ tickets'[k] = tickets[k]
               /\ \A k \in DOMAIN store' \ {id} :
                     k \in DOMAIN store /\ store'[k] = store[k]]_vars

\* C2 witness: a flagged text request without an ip has been handled and
\* its ticket sits in the cache and the store with the fallback address.
C2_Witness ==
    /\ op = "coordinate" /\ FlaggedText(req) /\ "ip" \notin DOMAIN req
    /\ ~ret.raised /\ env.save = "ok"
    /\ LET id == ret.value.auto_ticket.message[2] IN
       /\ id \in DOMAIN tickets /\ id \in DOMAIN store
       /\ tickets[id].auto_generated = TRUE
       /\ tickets[id].ip = FallbackIp

\* C5: the dict coordinator.process returns has the key auto_ticket
\* exactly when the request is a text request and the detector flagged its
\* prompt; for vision requests, other types and unflagged text it has not.
C5_AutoTicketKeyIffFlaggedText ==
    (op = "coordinate" /\ ~ret.raised) =>
        ("auto_ticket" \in DOMAIN ret.value <=> FlaggedText(req))

\* C5 witness: a vision request whose prompt the detector would flag got
\* its answer without an auto_ticket.
C5_Witness ==
    /\ op = "coordinate" /\ ~ret.raised
    /\ Get(req, "type", "text") = "vision"
    /\ detect_issue(Get(req, "prompt", <<>>))
    /\ "auto_ticket" \notin DOMAIN ret.value

\* C6: after a create, a get with the id of its confirmation string
\* returns a record with the issue, importance, ip, auto_generated,
\* created_at and ticket_id the ticket was created with, and status open
\* (for every create of that id no delete has followed).
C6_GetReturnsCreated ==
    (op = "get" /\ req.ticket_id \in DOMAIN created) =>
        /\ ~ret.raised
        /\ JsonParses(ret.value)
        /\ \A c \in created[req.ticket_id] :
              LET d == JsonLoads(ret.value) IN
              /\ d.ticket_id = c.ticket_id
              /\ d.issue = c.issue
              /\ d.importance = c.importance
              /\ d.ip = c.ip
              /\ d.auto_generated = c.auto_generated
              /\ d.created_at = c.created_at
              /\ d.status = "open"

\* C7: a get that follows a get with the same id, or a list that follows a
\* list with the same limit and offset, the store unchanged in between,
\* returns what the first returned -- also when the first get put the
\* ticket into the cache.
C7_ReadsIdempotent ==
    [][( /\ (op = "get" /\ op' = "get") \/ (op = "list" /\ op' = "list")
         /\ req' = req
         /\ store' = store ) => ret' = ret]_vars

\* C7 witness: a get has answered with a ticket that it had to load from
\* the store (a failed delete had dropped it from the cache), and the
\* ticket is now cached for the next get.
C7_Witness ==
    /\ op = "get" /\ ~ret.raised
    /\ req.ticket_id \in DOMAIN store
    /\ req.ticket_id \in DOMAIN tickets
    /\ req.ticket_id \notin DOMAIN created
    /\ ret.value = JsonDumps(TicketDict(tickets[req.ticket_id]))

\* what determine_importance answers over the texts of TextInputs
DetectorImportances == {determine_importance(t) : t \in TextInputs}

\* the importances the detection path can give
DetectedLevels == {"critical", "high", "medium"}

\* C11: the detector's importance is critical, high or medium for every
\* text, never low, so no ticket with auto_generated true that the
\* coordinator created has importance low: neither the auto_ticket it
\* returns, nor the ticket in the cache, nor the one in the store.
C11_NoLowFromDetection ==
    /\ DetectorImportances \subseteq DetectedLevels
    /\ (op = "coordinate" /\ ~ret.raised /\ "auto_ticket" \in DOMAIN ret.value)
          => ret.value.auto_ticket.importance \in DetectedLevels
    /\ \A id \in DOMAIN tickets :
          tickets[id].auto_generated => tickets[id].importance \in DetectedLevels
    /\ \A id \in DOMAIN store :
          LET tk == load_ticket(store, id, now) IN
          (tk # NoTicket /\ tk.auto_generated) => tk.importance \in DetectedLevels

\* C11 witness: a prompt without any severity indicator was flagged and its
\* ticket, auto_generated, got the default importance medium.
C11_Witness ==
    /\ op = "coordinate" /\ ~ret.raised /\ "auto_ticket" \in DOMAIN ret.value
    /\ ~HasHighIndicator(Lower(req.prompt))
    /\ ~HasMediumIndicator(Lower(req.prompt))
    /\ LET id == ret.value.auto_ticket.message[2] IN
       /\ id \in DOMAIN tickets
       /\ tickets[id].auto_generated
       /\ tickets[id].importance = "medium"

\* the type of the request is neither text nor vision
FansOut(request) == Get(request, "type", "text") \notin {"text", "vision"}

\* C13: for a request whose type is neither text nor vision,
\* coordinator.process returns as response the lines "Vision Agent: ...",
\* "Text Agent: ..." and "Ticket Agent: ...", each agent's answer to the
\* full request, joined by newlines in the order of registration.  (Asked
\* of the requests that carry the image the vision agent needs.)
C13_FanOutJoinsAllAnswers ==
    (op = "coordinate" /\ FansOut(req) /\ "image_data" \in DOMAIN req) =>
        /\ ~ret.raised
        /\ \E v \in {InferenceAnswer,
                     <<"Error in vision processing: ", InferenceError>>},
              x \in {InferenceAnswer,
                     <<"Error in text processing: ", InferenceError>>} :
              ret.value.response =
                 <<"Vision Agent", ": ">> \o v \o <<"\n">>
                 \o <<"Text Agent", ": ">> \o x \o <<"\n">>
                 \o <<"Ticket Agent", ": ">>
                 \o TicketProcess(req, Current, now,
                                  [listing |-> SomeListing(store)]).value

\* C14: get(id) returns the cached ticket when the id is in the cache;
\* otherwise the ticket loaded from the store, which it adds to the cache;
\* and "Ticket not found", without raising, exactly when neither the cache
\* nor the store has a ticket for the id.  It changes nothing else.
C14_GetCacheThenStore ==
    [][(now' = now /\ op' = "get") =>
         LET id == req'.ticket_id
             loaded == load_ticket(store, id, now)
         IN /\ ~ret'.raised
            /\ id \in DOMAIN tickets =>
                  /\ ret'.value = JsonDumps(TicketDict(tickets[id]))
                  /\ tickets' = tickets
            /\ (id \notin DOMAIN tickets /\ loaded # NoTicket) =>
                  /\ ret'.value = JsonDumps(TicketDict(loaded))
                  /\ DOMAIN tickets' = DOMAIN tickets \cup {id}
                  /\ tickets'[id] = loaded
                  /\ \A k \in DOMAIN tickets : tickets'[k] = tickets[k]
            /\ ret'.value = NotFoundMessage <=>
                  (id \notin DOMAIN tickets /\ loaded = NoTicket)
            /\ ret'.value = NotFoundMessage => tickets' = tickets
            /\ store' = store /\ memory' = memory]_vars

\* C14 witness: a get found the ticket in the store only, answered with it
\* and left it in the cache.
C14_Witness ==
    /\ op = "get" /\ out.call = "lookup"
    /\ ~out.cached /\ out.stored
    /\ ret.value # NotFoundMessage
    /\ req.ticket_id \in DOMAIN tickets

\* C15: delete(id) never raises and returns the success string or "Ticket
\* not found", whether the id is in the cache, in the store, in both or in
\* neither; afterwards neither the cache nor the store has a ticket for the
\* id.  (Asked of the calls in which the directory lets files be removed.)
C15_DeleteSucceedsOrNotFound ==
    (op = "delete" /\ env.remove = "ok") =>
        /\ ~ret.raised
        /\ ret.value \in {DeletedMessage(req.ticket_id), NotFoundMessage}
        /\ req.ticket_id \notin DOMAIN tickets
        /\ load_ticket(store, req.ticket_id, now) = NoTicket

\* C16: a delete of an id that the store has and the cache has not returns
\* the success string and removes the file from the store (the directory
\* letting the file be removed).
C16_DeleteStoreOnly ==
    [][(now' = now /\ op' = "delete" /\ env'.remove = "ok"
          /\ req'.ticket_id \notin DOMAIN tickets
          /\ load_ticket(store, req'.ticket_id, now) # NoTicket) =>
         /\ ~ret'.raised
         /\ ret'.value = DeletedMessage(req'.ticket_id)
         /\ req'.ticket_id \notin DOMAIN store'
         /\ req'.ticket_id \notin DOMAIN tickets']_vars

\* C16 witness: a delete that found the ticket in the store only has
\* answered with the success string and the file is gone.
C16_Witness ==
    /\ op = "delete" /\ out.call = "lookup"
    /\ ~out.cached /\ out.stored
    /\ ret.value = DeletedMessage(req.ticket_id)
    /\ req.ticket_id \notin DOMAIN store

\* the ids the store has a ticket for
Stored == {id \in DOMAIN store : load_ticket(store, id, now) # NoTicket}

\* the stored tickets whose text holds the query, whatever the case
Matching(query) ==
    {id \in Stored :
        LET ticket_str == Lower(JsonText(TicketDict(load_ticket(store, id, now))))
        IN \E i \in 1..Len(ticket_str) :
              /\ i + Len(query) - 1 <= Len(ticket_str)
              /\ \A k \in 1..Len(query) :
                    ticket_str[i + k - 1] = LowerChar(query[k])}

\* C17: search with a non-empty query returns exactly the stored tickets
\* whose serialized form holds the query as a substring, case ignored (an
\* empty list when none does); search with an empty or missing query
\* returns "Search query is required".
C17_SearchReturnsMatches ==
    (op = "search") =>
        LET query == Get(req, "query", <<>>)
            items == SubSeq(ret.value, 2, Len(ret.value) - 1)
            found == {JsonLoads(items[i]).ticket_id : i \in 1..Len(items)}
        IN /\ ~ret.raised
           /\ query = <<>> => ret.value = QueryRequiredMessage
           /\ query # <<>> =>
                /\ ret.value[1] = "[" /\ ret.value[Len(ret.value)] = "]"
                /\ found = Matching(query)
                /\ Len(items) = Cardinality(found)
                /\ \A i \in 1..Len(items) :
                      items[i] = store[JsonLoads(items[i]).ticket_id]

\* C17 witness: a query in capitals found one of two stored tickets.
C17_Witness ==
    /\ op = "search" /\ "query" \in DOMAIN req
    /\ req.query # Lower(req.query)
    /\ Cardinality(Stored) = 2
    /\ Len(ret.value) = 3

\* the stored tickets, the one created last first
NewestFirst ==
    CHOOSE order \in [1..Cardinality(Stored) -> Stored] :
        \A i, j \in 1..Cardinality(Stored) :
            i < j => load_ticket(store, order[i], now).created_at
                        > load_ticket(store, order[j], now).created_at

\* C18: list(limit, offset) returns the stored tickets, the one created
\* last first, from position offset to position offset + limit - 1 of that
\* order.
C18_ListPagesNewestFirst ==
    (op = "list") =>
        LET n == Cardinality(Stored)
            last == IF req.offset + req.limit < n THEN req.offset + req.limit
                    ELSE n
            page == SubSeq(NewestFirst, req.offset + 1, last)
        IN /\ ~ret.raised
           /\ ret.value =
                JsonDumpsList([i \in 1..Len(page) |->
                                 TicketDict(load_ticket(store, page[i], now))])

\* C19: VisionAgent.process and TextAgent.process never raise, whatever
\* request the coordinator passes them and whatever the inference call
\* does; when the call fails they return a string that begins with "Error
\* in vision processing: " or "Error in text processing: ".
C19_InferenceAgentsNeverRaise ==
    (op = "coordinate" /\ ~FansOut(req)) =>
        /\ ~ret.raised
        /\ (Get(req, "type", "text") = "vision" /\ env.vision = "failed") =>
              ret.value.response[1] = "Error in vision processing: "
        /\ (Get(req, "type", "text") = "text" /\ env.text = "failed") =>
              ret.value.response[1] = "Error in text processing: "

\* the fields of a ticket that the record of an id is made of
Held(tk) ==
    [issue |-> tk.issue, importance |-> tk.importance, ip |-> tk.ip,
     auto_generated |-> tk.auto_generated, created_at |-> tk.created_at,
     status |-> tk.status]

\* C20: once a ticket with an id is created, the record held for the id,
\* in the cache and in the store, stays the same through every later
\* create, get, list, search and coordinator call until the id is deleted.
C20_RecordStableUntilDeleted ==
    [][\A id \in DOMAIN created :
          (op' # "delete" \/ req'.ticket_id # id) =>
              /\ id \in DOMAIN tickets =>
                    /\ id \in DOMAIN tickets'
                    /\ Held(tickets'[id]) = Held(tickets[id])
              /\ id \in Stored =>
                    /\ load_ticket(store', id, now) # NoTicket
                    /\ Held(load_ticket(store', id, now))
                          = Held(load_ticket(store, id, now))]_vars

\* C12: for every flagged text the issue string of
\* IssueDetectionAgent.process is "Auto-detected issue: ", then the first
\* 200 characters of the text, then "..." exactly when the text is longer
\* than 200 characters; the string is a function of the text alone, and it
\* is the one the agent's log keeps.
C12_IssueTextCutAt200 ==
    (out.call = "process" /\ out.value.issue_detected) =>
        LET kept == IF Len(text) <= 200 THEN Len(text) ELSE 200
            issue == <<"A","u","t","o","-","d","e","t","e","c","t","e","d",
                       " ","i","s","s","u","e",":"," ">>
                     \o [i \in 1..kept |-> text[i]]
                     \o (IF Len(text) > 200 THEN <<".", ".", ".">> ELSE <<>>)
        IN /\ out.value.issue = issue
           /\ Len(memory["Issue Detection Agent"]) = 1
           /\ memory["Issue Detection Agent"][1].data.issue = issue

\* C12 witness: a flagged text of exactly 200 characters, whose keyword is
\* at its end, got an issue string without the dots.
C12_Witness ==
    /\ out.call = "process" /\ out.value.issue_detected
    /\ Len(text) = IssueTextLimit
    /\ text[1] = "x"
    /\ Len(out.value.issue) = Len(AutoDetectedTag) + IssueTextLimit

\* C21: a create whose issue text is missing or empty is answered with a
\* message other than the confirmation and leaves no ticket, so every
\* ticket of the cache and of the store has a non-empty issue.
C21_EmptyIssueRejected ==
    /\ (op = "create" /\ req.issue = <<>>) =>
          /\ ~ret.raised
          /\ ret.value[1] # "Ticket created successfully. Ticket ID: "
    /\ \A id \in DOMAIN tickets : tickets[id].issue # <<>>
    /\ \A id \in DOMAIN store :
          LET tk == load_ticket(store, id, now) IN
          tk # NoTicket => tk.issue # <<>>

\* C22: every ticket of the cache and of the store has an importance among
\* low, medium, high and critical, whatever importance the creates were
\* given.
C22_ImportanceInLevels ==
    /\ \A id \in DOMAIN tickets :
          tickets[id].importance \in {"low", "medium", "high", "critical"}
    /\ \A id \in DOMAIN store :
          LET tk == load_ticket(store, id, now) IN
          tk # NoTicket =>
              tk.importance \in {"low", "medium", "high", "critical"}


\* both handlers have run to their end and the disk took both saves
BothHandled ==
    /\ DOMAIN out = 1..2
    /\ \A i \in 1..2 : out[i] # NoCall /\ out[i].save = "ok"

\* C23: when two text requests that both get an auto-created ticket are
\* handled concurrently, in whatever order the handlers run, then after
\* both have completed the store holds two intact tickets, one for each
\* request, and each request's auto_ticket names the id of its own ticket.
C23_TwoRequestsTwoTickets ==
    BothHandled =>
        /\ \A i \in 1..2 :
              /\ ~out[i].raised
              /\ "auto_ticket" \in DOMAIN out[i].value
              /\ LET a == out[i].value.auto_ticket
                     tk == load_ticket(store, a.message[2], now)
                 IN /\ tk # NoTicket
                    /\ tk.issue = a.issue
                    /\ tk.importance = a.importance
                    /\ tk.created_at = IsoFormat(out[i].at)
        /\ out[1].value.auto_ticket.message[2] # out[2].value.auto_ticket.message[2]
        /\ Cardinality({id \in DOMAIN store : load_ticket(store, id, now) # NoTicket}) = 2

\* the system as it is when the module has been loaded
Fresh == [tickets |-> EmptyMap, store |-> EmptyMap, memory |-> NoMemory]

\* C24: IssueDetectionAgent.process changes neither the ticket cache, nor
\* the ticket store, nor the log of any other agent; its own log gains one
\* record when it detects an issue and none otherwise; and its result is
\* the one the same text gets in a freshly started system, whatever calls
\* came before.
C24_DetectorPure ==
    [][(now' = now /\ op' = "detect") =>
         /\ ~ret'.raised
         /\ tickets' = tickets
         /\ store' = store
         /\ \A a \in AgentNames \ {"Issue Detection Agent"} :
               memory'[a] = memory[a]
         /\ Len(memory'["Issue Detection Agent"])
               = Len(memory["Issue Detection Agent"])
                   + (IF ret'.value.issue_detected THEN 1 ELSE 0)
         /\ ret'.value = IssueProcess(req'.text, Fresh, 0).value]_vars

\* C24 witness: the detector has flagged the same text a second time, with
\* a ticket in the store and a record in the ticket agent's log.
C24_Witness ==
    /\ op = "detect" /\ ret.value.issue_detected
    /\ DOMAIN store # {}
    /\ Len(memory["Ticket Agent"]) = 1
    /\ Len(memory["Issue Detection Agent"]) = 2
    /\ memory["Issue Detection Agent"][1].data.issue = ret.value.issue
    /\ memory["Issue Detection Agent"][2].data.issue = ret.value.issue

\* C25: in coordinator.process for a flagged text request the ticket is
\* created before the text agent is asked, and what the text agent returns
\* does not touch it: when the agent returns its error string the call
\* still returns that string as response together with auto_ticket, the
\* ticket named there is in the cache, and (the save having succeeded) in
\* the store, with the detector's issue and importance.
C25_TicketWhateverTextAnswers ==
    (op = "coordinate" /\ FlaggedText(req) /\ env.text = "failed") =>
        /\ ~ret.raised
        /\ ret.value.response = <<"Error in text processing: ", InferenceError>>
        /\ "auto_ticket" \in DOMAIN ret.value
        /\ LET a == ret.value.auto_ticket
               id == a.message[2]
               tk == load_ticket(store, id, now)
           IN /\ a.created
              /\ a.issue = FormatIssue(Get(req, "prompt", <<>>))
              /\ id \in DOMAIN tickets
              /\ tickets[id].auto_generated
              /\ tickets[id].issue = a.issue
              /\ env.save = "ok" =>
                    /\ tk # NoTicket
                    /\ tk.auto_generated
                    /\ tk.issue = a.issue
                    /\ tk.importance = a.importance
              /\ memory["Ticket Agent"][Len(memory["Ticket Agent"])].data
                    = [type |-> "ticket_created", ticket_id |-> id]

\* C25 witness: the text agent failed on a flagged request, and the ticket
\* of the request is in the store all the same.
C25_Witness ==
    /\ op = "coordinate" /\ FlaggedText(req)
    /\ env.text = "failed" /\ env.save = "ok"
    /\ ~ret.raised
    /\ ret.value.response[1] = "Error in text processing: "
    /\ ret.value.auto_ticket.message[2] \in DOMAIN store
    /\ memory["Text Agent"] = <<>>

\* C26: each coordinator.process call that returns appends exactly one
\* record to the coordinator's own log, with the request type, the
\* response returned and the auto_ticket (None when there is none); a call
\* that raises appends none.
C26_OneCoordinationRecord ==
    [][(now' = now /\ op' = "coordinate") =>
         LET before == memory["Coordinator Agent"]
             after == memory'["Coordinator Agent"]
         IN IF ret'.raised
            THEN after = before
            ELSE after =
                   Append(before,
                          [timestamp |-> IsoFormat(now),
                           data |->
                             [type |-> "coordination",
                              query_type |-> Get(req', "type", "text"),
                              response |-> ret'.value.response,
                              auto_ticket |->
                                 IF "auto_ticket" \in DOMAIN ret'.value
                                 THEN ret'.value.auto_ticket
                                 ELSE NoAutoTicket]])]_vars

\* C26 witness: the coordinator's log holds the record of a call that
\* returned, and a later call that raised has added nothing to it.
C26_Witness ==
    /\ op = "coordinate" /\ ret.raised
    /\ Len(memory["Coordinator Agent"]) = 1
    /\ memory["Coordinator Agent"][1].data.auto_ticket # NoAutoTicket
    /\ memory["Vision Agent"] # <<>>

\* agent a's log is as it was
SameLog(a) == memory'[a] = memory[a]

\* agent a's log gained the one record data, written now
GainedRecord(a, data) ==
    memory'[a] = Append(memory[a], [timestamp |-> IsoFormat(now), data |-> data])

\* C27: a log is changed only by its own agent.  A call of the ticket
\* agent leaves every other log as it was.  In coordinator.process the
\* vision agent and the text agent, where they are invoked, append exactly
\* one record when the inference call succeeds and none when it fails; the
\* logs of the agents the call does not invoke stay as they were (the
\* vision agent's for a text request; the text agent's, the ticket agent's
\* and the detector's for a vision request; the detector's in a fan-out;
\* the detector's and the ticket agent's for an unflagged text request).
C27_LogsChangedByOwnerOnly ==
    [][(now' = now) =>
         /\ op' \in {"create", "get", "list", "search", "delete"} =>
               \A a \in AgentNames \ {"Ticket Agent"} : SameLog(a)
         /\ (op' = "coordinate" /\ Get(req', "type", "text") = "text") =>
               /\ SameLog("Vision Agent")
               /\ env'.text = "ok" =>
                     GainedRecord("Text Agent",
                                  [type |-> "text_analysis",
                                   result |-> InferenceAnswer])
               /\ env'.text = "failed" => SameLog("Text Agent")
               /\ ~detect_issue(Get(req', "prompt", <<>>)) =>
                     SameLog("Issue Detection Agent") /\ SameLog("Ticket Agent")
         /\ (op' = "coordinate" /\ Get(req', "type", "text") = "vision") =>
               /\ SameLog("Text Agent")
               /\ SameLog("Ticket Agent")
               /\ SameLog("Issue Detection Agent")
               /\ ("image_data" \in DOMAIN req' /\ env'.vision = "ok") =>
                     GainedRecord("Vision Agent",
                                  [type |-> "vision_analysis",
                                   result |-> InferenceAnswer])
               /\ ("image_data" \notin DOMAIN req' \/ env'.vision = "failed") =>
                     SameLog("Vision Agent")
         /\ (op' = "coordinate" /\ FansOut(req')) =>
               /\ SameLog("Issue Detection Agent")
               /\ ("image_data" \in DOMAIN req' /\ env'.vision = "failed") =>
                     SameLog("Vision Agent")
               /\ ("image_data" \in DOMAIN req' /\ env'.text = "failed") =>
                     SameLog("Text Agent")
               /\ ("image_data" \in DOMAIN req' /\ env'.text = "ok") =>
                     GainedRecord("Text Agent",
                                  [type |-> "text_analysis",
                                   result |-> InferenceAnswer])]_vars

\* C27 witness: the text agent failed on an unflagged text request after
\* it had answered one: its log holds the one record of the answer, and
\* the other agents' logs are empty.
C27_Witness ==
    /\ op = "coordinate" /\ Get(req, "type", "text") = "text"
    /\ env.text = "failed" /\ ~ret.raised
    /\ Len(memory["Text Agent"]) = 1
    /\ Len(memory["Coordinator Agent"]) = 2
    /\ memory["Vision Agent"] = <<>>
    /\ memory["Ticket Agent"] = <<>>

\* C28: after any sequence of create, get, list, delete and search calls,
\* also ones in which a write to the store or a removal fails, every id of
\* the ticket agent's cache has a ticket in the store.
C28_CacheWithinStore ==
    \A id \in DOMAIN tickets : load_ticket(store, id, now) # NoTicket

\* the ids whose latest record in the ticket agent's log is that of a
\* delete: deleted with the success string, and not created since
DeletedIds ==
    LET log == memory["Ticket Agent"] IN
    {id \in TicketIds :
        \E i \in 1..Len(log) :
            /\ log[i].data = [type |-> "ticket_deleted", ticket_id |-> id]
            /\ \A j \in (i + 1)..Len(log) : log[j].data.ticket_id # id}

\* C29: after delete(id) has returned the success string and as long as no
\* create follows, the id is in neither the cache nor the store, a get
\* with the id returns "Ticket not found", and no list and no search
\* returns a ticket with the id.
C29_DeletedStaysGone ==
    \A id \in DeletedIds :
        /\ id \notin DOMAIN tickets
        /\ id \notin DOMAIN store
        /\ (op = "get" /\ req.ticket_id = id) =>
              (~ret.raised /\ ret.value = NotFoundMessage)
        /\ op \in {"list", "search"} =>
              /\ ~ret.raised
              /\ \A i \in 2..(Len(ret.value) - 1) :
                    JsonLoads(ret.value[i]).ticket_id # id

\* C29 witness: a get with the id of a ticket that was created and then
\* deleted has answered "Ticket not found".
C29_Witness ==
    /\ op = "get" /\ req.ticket_id \in DeletedIds
    /\ ret.value = NotFoundMessage
    /\ Len(memory["Ticket Agent"]) = 2
    /\ memory["Ticket Agent"][1].data
          = [type |-> "ticket_created", ticket_id |-> req.ticket_id]

\* C30: coordinator.process on a vision request, or on a text request
\* whose prompt the detector does not flag, leaves the ticket cache, the
\* ticket store and the ticket agent's log as they were.
C30_NoTicketWithoutFlaggedText ==
    [][(now' = now /\ op' = "coordinate"
          /\ \/ Get(req', "type", "text") = "vision"
             \/ /\ Get(req', "type", "text") = "text"
                /\ ~detect_issue(Get(req', "prompt", <<>>))) =>
         /\ tickets' = tickets
         /\ store' = store
         /\ memory'["Ticket Agent"] = memory["Ticket Agent"]]_vars

\* C30 witness: an unflagged text request got its answer beside a ticket
\* that sits in the cache, in the store and in the ticket agent's log.
C30_Witness ==
    /\ op = "coordinate" /\ ~ret.raised
    /\ Get(req, "type", "text") = "text"
    /\ ~detect_issue(Get(req, "prompt", <<>>))
    /\ memory["Text Agent"] # <<>>
    /\ Len(memory["Ticket Agent"]) = 1
    /\ DOMAIN tickets # {} /\ DOMAIN tickets = DOMAIN store

====
